---- MODULE Spec2Model ----
(***************************************************************************)
(* Model of the bucket-store library: the observable / persistable Bucket  *)
(* (src/base-bucket/bucket.ts), the FetcherBucket (src/unnamed/part_000),  *)
(* the PaginatedFetcherBucket and the MutatorBucket built on it, and the   *)
(* process-wide singleton registry.                                        *)
(*                                                                         *)
(* JavaScript runs the library on one event loop: every handler runs to    *)
(* its next `await` without interruption, so one action of the model is    *)
(* one such synchronous segment.                                           *)
(***************************************************************************)
EXTENDS Integers, Sequences, FiniteSets, Bags, TLC

VARIABLES
  \* ---- Bucket (bucket.ts) ----
  config,        \* this.config: [defaultValue, persistKey]
  value,         \* this.value
  subscribers,   \* this.subscribers
  hydrated,      \* this.hydrated: the optional Bucket<boolean>
  storage,       \* AsyncStorage's item under the bucket's persistKey
  hydratePc,     \* position of the constructor's hydrate() call
  hydrateBlob,   \* what its getItem read
  pendingOps,    \* bag of AsyncStorage setItem / removeItem calls issued and not settled
  captured,      \* number of failures handed to captureException
  everStored,    \* whether the persistKey ever held an item
  \* ---- what the step just taken did ----
  lastSet,       \* the Bucket.set call it made, if any, and its argument
  notified,      \* per subscriber: the values the step called it with
  \* ---- singleton registry (Bucket.instances) ----
  instances,     \* Bucket.instances: key -> instance (0: no entry)
  heap,          \* the store instances constructed so far, by identity
  handles,       \* per call site: the key it looked up and the instance it got
  lastWrite,     \* the set the step just taken made through a handle, if any
  lastLookup,    \* the singleton call the step just taken made, if any
  \* ---- FetcherBucket and its subclasses ----
  fconfig,       \* the class of the store and the fetch part of its config
  page,          \* this.page
  reachedEnd,    \* this.reachedEnd
  loading,       \* value of the this.loading bucket
  loadingMore,   \* the this.loadingMore bucket (paginated stores only)
  fetched,       \* value of the this.fetched bucket
  error,         \* value of the this.error bucket
  queries,       \* this.queries: resolved path -> wrapper made by suspense()
  tasks,         \* bag of fetch calls suspended at `await bucketFetch(...)`
  issuedCount,   \* number of requests issued so far
  event,         \* what the step just taken did: the call made or settled
  lastRead,      \* the read() of a wrapper the step just taken made, if any
  run            \* page results of the fetches since the last fresh fetch started

bucketVars == <<config, value, subscribers, hydrated, storage, hydratePc,
                hydrateBlob, pendingOps, captured, everStored, lastSet, notified>>

regVars == <<instances, heap, handles, lastWrite, lastLookup>>

fetchVars == <<fconfig, page, reachedEnd, loading, loadingMore, fetched, error,
               queries, tasks, issuedCount, event, lastRead, run>>

vars == <<bucketVars, regVars, fetchVars>>

(***************************************************************************)
(* Bounds of the model.                                                    *)
(***************************************************************************)
MaxSubs == 2
MaxPending == 1
MaxCaptured == 1
MaxSites == 2
MaxRequests == 3

(***************************************************************************)
(* JavaScript values. Each kind has its own field so that values of        *)
(* different kinds can be compared.                                        *)
(***************************************************************************)
Undefined == [t |-> "undefined"]
Null == [t |-> "null"]
Bool(b) == [t |-> "bool", b |-> b]
Num(n) == [t |-> "num", n |-> n]
Str(s) == [t |-> "str", s |-> s]
Arr(items) == [t |-> "array", items |-> items]
\* A string holding JSON text, kept as its sequence of tokens.
Text(toks) == [t |-> "text", toks |-> toks]

\* JavaScript truthiness (`!stored`, `config.persistKey ? ...`).
Truthy(v) ==
  CASE v.t = "undefined" -> FALSE
    [] v.t = "null" -> FALSE
    [] v.t = "bool" -> v.b
    [] v.t = "num" -> v.n # 0
    [] v.t = "str" -> v.s # ""
    [] v.t = "text" -> v.toks # <<>>
    [] OTHER -> TRUE

\* `!old`, the updater the set calls of the model pass as a function.
Negate(old) == Bool(~Truthy(old))

(***************************************************************************)
(* JSON text, as a sequence of tokens.                                     *)
(***************************************************************************)
NumDomain == 0..9

RECURSIVE StringifyItems(_)
StringifyItems(items) ==
  IF items = <<>> THEN <<>>
  ELSE <<ToString(Head(items))>> \o StringifyItems(Tail(items))

\* JSON.stringify(value): undefined has no JSON text (the result is undefined).
Stringify(v) ==
  CASE v.t = "undefined" -> Undefined
    [] v.t = "null" -> Text(<<"null">>)
    [] v.t = "bool" -> Text(<<IF v.b THEN "true" ELSE "false">>)
    [] v.t = "num" -> Text(<<ToString(v.n)>>)
    [] v.t = "str" -> Text(<<"\"", v.s, "\"">>)
    [] OTHER -> Text(<<"[">> \o StringifyItems(v.items) \o <<"]">>)

IsNumToken(tok) == \E n \in NumDomain : ToString(n) = tok
ParseNum(tok) == CHOOSE n \in NumDomain : ToString(n) = tok

RECURSIVE ParseItems(_)
ParseItems(toks) ==
  IF toks = <<>> THEN <<>>
  ELSE <<ParseNum(Head(toks))>> \o ParseItems(Tail(toks))

\* Whether JSON.parse(text) returns (TRUE) or throws a SyntaxError (FALSE).
Parses(text) ==
  \/ Len(text) = 1 /\ (text[1] \in {"null", "true", "false"} \/ IsNumToken(text[1]))
  \/ Len(text) = 3 /\ text[1] = "\"" /\ text[3] = "\""
  \/ /\ Len(text) >= 2
     /\ text[1] = "["
     /\ text[Len(text)] = "]"
     /\ \A i \in 2..(Len(text) - 1) : IsNumToken(text[i])

\* JSON.parse(text) for a text that parses.
Parse(text) ==
  CASE Len(text) = 1 /\ text[1] = "null" -> Null
    [] Len(text) = 1 /\ text[1] = "true" -> Bool(TRUE)
    [] Len(text) = 1 /\ text[1] = "false" -> Bool(FALSE)
    [] Len(text) = 1 /\ IsNumToken(text[1]) -> Num(ParseNum(text[1]))
    [] Len(text) = 3 /\ text[1] = "\"" -> Str(text[2])
    [] OTHER -> Arr(ParseItems(SubSeq(text, 2, Len(text) - 1)))

(***************************************************************************)
(* Bucket                                                                  *)
(***************************************************************************)
KeyUndefined == "<undefined>"
\* `if (this.config.persistKey)`: undefined and the empty string are falsy.
HasPersistKey(cfg) == cfg.persistKey \notin {KeyUndefined, ""}

\* getItem's result for a key that holds no item (null).
NoItem == Null

Subs == 1..MaxSubs
NoSubscriberCalls == [s \in Subs |-> <<>>]

\* `typeof newValue === 'function' ? newValue(this.value) : newValue`
SetArgs ==
  {[fn |-> FALSE, v |-> v] : v \in {Null, Num(1), Undefined}}
    \cup {[fn |-> TRUE, v |-> Undefined]}

ComputedValue(arg, old) == IF arg.fn THEN Negate(old) ELSE arg.v

\* Mutant of NotifyAll: the loop stops after the first subscriber.
NotifyAll_StopsAfterFirst(subs, calls, val) ==
  IF subs = {} THEN calls
  ELSE LET s == CHOOSE x \in subs : TRUE
       IN [calls EXCEPT ![s] = Append(@, val)]

\* `for (const subscriber of this.subscribers) subscriber(val)`. The callbacks
\* are the ones useSyncExternalStore registers; they do not call back into
\* the bucket while the loop runs.
RECURSIVE NotifyAll(_, _, _)
NotifyAll(subs, calls, val) ==
  IF subs = {} THEN calls
  ELSE LET s == CHOOSE x \in subs : TRUE
       IN NotifyAll(subs \ {s}, [calls EXCEPT ![s] = Append(@, val)], val)

\* bucketPersistSave(key, value): AsyncStorage.setItem(key, JSON.stringify(value))
PersistSaveOp(val) == [op |-> "setItem", text |-> Stringify(val)]
\* bucketPersistClear(key): AsyncStorage.removeItem(key)
PersistClearOp == [op |-> "removeItem", text |-> Undefined]

\* Mutant of OpsAfterSet: set issues no save.
OpsAfterSet_NoSave(cfg, ops, val) == ops

\* The tail of Bucket.set: the save is issued only with a persistKey.
OpsAfterSet(cfg, ops, val) ==
  IF HasPersistKey(cfg) THEN ops (+) SetToBag({PersistSaveOp(val)}) ELSE ops

\* Mutant of ConstructHydrated: the flag is created whatever the config.
ConstructHydrated_Always(cfg) == [exists |-> TRUE, value |-> Bool(FALSE)]

\* The constructor's `this.hydrated = new Bucket({ defaultValue: false })`.
ConstructHydrated(cfg) ==
  IF HasPersistKey(cfg)
    THEN [exists |-> TRUE, value |-> Bool(FALSE)]
    ELSE [exists |-> FALSE, value |-> Undefined]

\* Mutant of ConstructValue: the constructor does not apply the default.
ConstructValue_NoDefault(cfg) == Undefined

\* The constructor's `this.value = this.config.defaultValue` under its guard.
ConstructValue(cfg) ==
  IF cfg.defaultValue # Undefined THEN cfg.defaultValue ELSE Undefined

\* `this.hydrated?.useValue() ?? true`
UseIsHydrated(h) ==
  LET v == IF h.exists THEN h.value ELSE Undefined
  IN IF v.t \in {"undefined", "null"} THEN Bool(TRUE) ELSE v

\* `this.hydrated?.set(true)`
HydratedSetTrue(h) == IF h.exists THEN [h EXCEPT !.value = Bool(TRUE)] ELSE h

\* bucketPersistHydrate's `res ? JSON.parse(res) : undefined`, for a text that
\* parses when it is parsed.
HydrateParsed(blob) == IF Truthy(blob) THEN Parse(blob.toks) ELSE Undefined
\* Mutant of HydrateThrows: JSON.parse accepts any text.
HydrateThrows_Never(blob) == FALSE

HydrateThrows(blob) == Truthy(blob) /\ ~Parses(blob.toks)

BucketConfigs ==
  [defaultValue : {Undefined, Num(0)}, persistKey : {KeyUndefined, "", "store"}]

\* Values an earlier store with the same persistKey was set to, and saved.
SavedValues == {Num(1), Num(0), Bool(FALSE), Str(""), Null}

\* What the key may hold when the process starts: nothing, the text of a
\* value an earlier run saved, or text that is not JSON.
StoredAtStart == {NoItem, Text(<<"{">>)} \cup {Stringify(v) : v \in SavedValues}

NoSet == [called |-> FALSE, arg |-> [fn |-> FALSE, v |-> Undefined]]
\* A step that calls no Bucket.set calls no subscriber.
NoSetCall == lastSet' = NoSet /\ notified' = NoSubscriberCalls

\* hydrate() has no caller in the repository but the constructor, so each
\* store runs it once.
\* State of a Bucket constructed with cfg when its constructor has returned,
\* stored being what its persistKey holds: the default applied, and with a
\* persistKey the hydration flag created and hydrate() suspended at its
\* `await bucketPersistHydrate(...)`.
BucketFields(cfg, stored) ==
  /\ config = cfg
  /\ value = ConstructValue(cfg)
  /\ subscribers = {}
  /\ hydrated = ConstructHydrated(cfg)
  /\ storage = stored
  /\ hydratePc = IF HasPersistKey(cfg) THEN "getItem" ELSE "idle"
  /\ hydrateBlob = NoItem
  /\ pendingOps = EmptyBag
  /\ captured = 0
  /\ everStored = (stored # NoItem)
  /\ lastSet = NoSet
  /\ notified = NoSubscriberCalls

BucketInit ==
  \E cfg \in BucketConfigs :
    \E stored \in (IF HasPersistKey(cfg) THEN StoredAtStart ELSE {NoItem}) :
      BucketFields(cfg, stored)

\* The steps of a lone Bucket touch no registry.
BucketOnly == UNCHANGED <<regVars, fetchVars>>

\* Bucket.set, as every caller runs it.
BucketSet(arg) ==
  LET val == ComputedValue(arg, value)
  IN /\ value' = val
     /\ notified' = NotifyAll(subscribers, NoSubscriberCalls, val)
     /\ pendingOps' = OpsAfterSet(config, pendingOps, val)
     /\ lastSet' = [called |-> TRUE, arg |-> arg]

\* set(newValue) called by the application. The storage is taken to keep up:
\* at most MaxPending of its calls are outstanding when a new set is made.
Set(arg) ==
  /\ BucketOnly
  /\ BagCardinality(pendingOps) < MaxPending
  /\ BucketSet(arg)
  /\ UNCHANGED <<config, subscribers, hydrated, storage, hydratePc, hydrateBlob,
                 captured, everStored>>

\* The subscribe function Bucket.use hands to useSyncExternalStore.
Subscribe(s) ==
  /\ BucketOnly
  /\ s \notin subscribers
  /\ subscribers' = subscribers \cup {s}
  /\ NoSetCall
  /\ UNCHANGED <<config, value, hydrated, storage, hydratePc, hydrateBlob,
                 pendingOps, captured, everStored>>

\* The unsubscribe function it returns.
Unsubscribe(s) ==
  /\ BucketOnly
  /\ s \in subscribers
  /\ subscribers' = subscribers \ {s}
  /\ NoSetCall
  /\ UNCHANGED <<config, value, hydrated, storage, hydratePc, hydrateBlob,
                 pendingOps, captured, everStored>>

\* AsyncStorage reads the item for hydrate's getItem.
HydrateRead ==
  /\ BucketOnly
  /\ hydratePc = "getItem"
  /\ hydrateBlob' = storage
  /\ hydratePc' = "loaded"
  /\ NoSetCall
  /\ UNCHANGED <<config, value, subscribers, hydrated, storage, pendingOps,
                 captured, everStored>>

\* getItem rejects: hydrate() rejects and the constructor's catch reports it.
HydrateReadFail ==
  /\ BucketOnly
  /\ hydratePc = "getItem"
  /\ captured < MaxCaptured
  /\ hydratePc' = "failed"
  /\ captured' = captured + 1
  /\ NoSetCall
  /\ UNCHANGED <<config, value, subscribers, hydrated, storage, hydrateBlob,
                 pendingOps, everStored>>

\* hydrate() resumes with what getItem read.
HydrateResume ==
  /\ BucketOnly
  /\ hydratePc = "loaded"
  /\ IF HydrateThrows(hydrateBlob)
       THEN /\ captured < MaxCaptured
            /\ hydratePc' = "failed"
            /\ captured' = captured + 1
            /\ NoSetCall
            /\ UNCHANGED <<value, hydrated, pendingOps>>
       ELSE LET stored == HydrateParsed(hydrateBlob)
            IN /\ hydratePc' = "done"
               /\ captured' = captured
               /\ IF ~Truthy(stored)
                    THEN NoSetCall /\ UNCHANGED <<value, hydrated, pendingOps>>
                    ELSE /\ BucketSet([fn |-> FALSE, v |-> stored])
                         /\ hydrated' = HydratedSetTrue(hydrated)
  /\ UNCHANGED <<config, subscribers, storage, hydrateBlob, everStored>>

\* An issued setItem / removeItem takes effect; the calls settle in any order.
\* setItem refuses a value that is not a string (JSON.stringify(undefined)),
\* so that call can only fail.
PersistSettle(op) ==
  /\ BucketOnly
  /\ BagIn(op, pendingOps)
  /\ op.op = "setItem" => op.text # Undefined
  /\ storage' = IF op.op = "setItem" THEN op.text ELSE NoItem
  /\ everStored' = (everStored \/ op.op = "setItem")
  /\ pendingOps' = pendingOps (-) SetToBag({op})
  /\ NoSetCall
  /\ UNCHANGED <<config, value, subscribers, hydrated, hydratePc, hydrateBlob,
                 captured>>

\* An issued call rejects: set's catch reports a failed save; a failed
\* removeItem rejects clearStored() to its caller.
PersistFail(op) ==
  /\ BucketOnly
  /\ BagIn(op, pendingOps)
  /\ op.op = "setItem" => captured < MaxCaptured
  /\ captured' = IF op.op = "setItem" THEN captured + 1 ELSE captured
  /\ pendingOps' = pendingOps (-) SetToBag({op})
  /\ NoSetCall
  /\ UNCHANGED <<config, value, subscribers, hydrated, storage, hydratePc,
                 hydrateBlob, everStored>>

\* Bucket.clearStored up to its await.
ClearStored ==
  /\ BucketOnly
  /\ BagCardinality(pendingOps) < MaxPending
  /\ IF HasPersistKey(config)
       THEN pendingOps' = pendingOps (+) SetToBag({PersistClearOp})
       ELSE pendingOps' = pendingOps
  /\ NoSetCall
  /\ UNCHANGED <<config, value, subscribers, hydrated, storage, hydratePc,
                 hydrateBlob, captured, everStored>>

BucketNext ==
  \/ \E arg \in SetArgs : Set(arg)
  \/ \E s \in Subs : Subscribe(s)
  \/ \E s \in Subs : Unsubscribe(s)
  \/ HydrateRead
  \/ HydrateReadFail
  \/ HydrateResume
  \/ \E op \in BagToSet(pendingOps) : PersistSettle(op)
  \/ \E op \in BagToSet(pendingOps) : PersistFail(op)
  \/ ClearStored

(***************************************************************************)
(* Singleton registry                                                      *)
(***************************************************************************)
Sites == 1..MaxSites
Paths == {"/a", "/b"}
\* The uniqueKey argument: left out, or a string (here one that is also a path).
UniqueKeys == {KeyUndefined, "/a"}
RegKeys == Paths \cup (UniqueKeys \ {KeyUndefined})
Helpers == {"keyedBucket", "keyedFetcherBucket", "keyedMutatorBucket",
            "keyedPaginatedFetcherBucket"}
RegConfigs == [path : Paths, persistKey : {KeyUndefined, "store"}]

NoHandle == [key |-> KeyUndefined, id |-> 0]
NoWrite == [site |-> 0, v |-> Undefined]
NoLookup == [site |-> 0, helper |-> "none", path |-> "", persistKey |-> KeyUndefined,
             created |-> FALSE]

\* The class each keyed helper's creator constructs.
VariantOf(helper) ==
  CASE helper = "keyedBucket" -> "Bucket"
    [] helper = "keyedFetcherBucket" -> "FetcherBucket"
    [] helper = "keyedMutatorBucket" -> "MutatorBucket"
    [] OTHER -> "PaginatedFetcherBucket"

\* `uniqueKey ?? config.path`; keyedBucket takes the key as its own argument.
RegistryKey(helper, uniqueKey, cfg) ==
  IF uniqueKey # KeyUndefined THEN uniqueKey ELSE cfg.path

\* The store a creator constructs, with the key it was created for.
NewInstance(helper, key, cfg) ==
  [variant |-> VariantOf(helper), key |-> key, path |-> cfg.path,
   persistKey |-> cfg.persistKey, value |-> Undefined]

\* Mutant of MustCreate: the lookup result is ignored and a store is always created.
MustCreate_Always(reg, key) == TRUE

\* `if (!this.instances.get(key))`: a store is an object, hence truthy.
MustCreate(reg, key) == reg[key] = 0

RegIdle ==
  /\ instances = [k \in RegKeys |-> 0]
  /\ heap = <<>>
  /\ handles = [s \in Sites |-> NoHandle]
  /\ lastWrite = NoWrite
  /\ lastLookup = NoLookup

\* Bucket.singleton(key, creator) called from a call site through a keyed helper.
Singleton(site, helper, uniqueKey, cfg) ==
  /\ helper = "keyedBucket" => uniqueKey # KeyUndefined
  /\ LET key == RegistryKey(helper, uniqueKey, cfg)
         id == Len(heap) + 1
     IN IF MustCreate(instances, key)
          THEN /\ heap' = Append(heap, NewInstance(helper, key, cfg))
               /\ instances' = [instances EXCEPT ![key] = id]
               /\ handles' = [handles EXCEPT ![site] = [key |-> key, id |-> id]]
          ELSE /\ UNCHANGED <<heap, instances>>
               /\ handles' = [handles EXCEPT ![site] = [key |-> key, id |-> instances[key]]]
  /\ lastWrite' = NoWrite
  /\ UNCHANGED <<bucketVars, fetchVars>>

\* The call, not recorded.
Lookup(site, helper, uniqueKey, cfg) ==
  /\ Singleton(site, helper, uniqueKey, cfg)
  /\ lastLookup' = NoLookup

\* The call, recorded in lastLookup with its arguments and whether the
\* creator ran.
TracedLookup(site, helper, uniqueKey, cfg) ==
  /\ Singleton(site, helper, uniqueKey, cfg)
  /\ lastLookup' = [site |-> site, helper |-> helper, path |-> cfg.path,
                    persistKey |-> cfg.persistKey,
                    created |-> Len(heap') > Len(heap)]

\* set(v) on the store a call site holds.
HandleSet(site, v) ==
  /\ handles[site].id # 0
  /\ heap' = [heap EXCEPT ![handles[site].id].value = v]
  /\ lastWrite' = [site |-> site, v |-> v]
  /\ lastLookup' = NoLookup
  /\ UNCHANGED <<instances, handles>>
  /\ UNCHANGED <<bucketVars, fetchVars>>

\* get() on the store a call site holds.
HandleGet(site) == heap[handles[site].id].value

RegNext ==
  \/ \E site \in Sites, helper \in Helpers, uniqueKey \in UniqueKeys, cfg \in RegConfigs :
       Lookup(site, helper, uniqueKey, cfg)
  \/ \E site \in Sites, v \in {Num(0), Num(1)} : HandleSet(site, v)

\* The call sites of an application looking stores up, each call recorded.
CreatorsNext ==
  \E site \in Sites, helper \in Helpers, uniqueKey \in UniqueKeys, cfg \in RegConfigs :
    TracedLookup(site, helper, uniqueKey, cfg)

(***************************************************************************)
(* FetcherBucket, MutatorBucket, PaginatedFetcherBucket                    *)
(***************************************************************************)
DEFAULT_LIMIT == 10

Err(n) == [t |-> "error", id |-> n]
Errors == {Err(1), Err(2)}

\* Bodies the network answers with (bucketFetch's `data ?? test()`): a short
\* page, pages of 2 and 4 items, and a page of DEFAULT_LIMIT items.
Responses ==
  {Arr(<<7>>), Arr(<<1, 2>>), Arr(<<3, 4, 5, 6>>), Arr([i \in 1..DEFAULT_LIMIT |-> i - 1])}

\* The configurations the model constructs stores with. aggregate "prepend"
\* stands for (prev, next) => next.concat(prev), isEnded "empty" for
\* (next) => next.length === 0; the sideEffect hook writes nothing to the store.
FetchConfig(variant, hook, agg, ended, limit, default) ==
  [variant |-> variant, sideEffect |-> hook, aggregate |-> agg, isEnded |-> ended,
   limit |-> limit, defaultValue |-> default]

FetchConfigs ==
  {FetchConfig("PaginatedFetcherBucket", FALSE, "undefined", "undefined", Undefined, Arr(<<>>)),
   FetchConfig("PaginatedFetcherBucket", FALSE, "undefined", "undefined", Num(2), Undefined),
   FetchConfig("PaginatedFetcherBucket", TRUE, "undefined", "undefined", Num(2), Arr(<<>>)),
   FetchConfig("PaginatedFetcherBucket", FALSE, "prepend", "empty", Num(2), Arr(<<>>)),
   FetchConfig("FetcherBucket", FALSE, "undefined", "undefined", Undefined, Undefined),
   FetchConfig("FetcherBucket", TRUE, "undefined", "undefined", Undefined, Undefined),
   FetchConfig("MutatorBucket", FALSE, "undefined", "undefined", Undefined, Undefined)}

IsPaginated(cfg) == cfg.variant = "PaginatedFetcherBucket"

\* `this.config.limit ?? DEFAULT_LIMIT`
GetLimit(cfg) == IF cfg.limit = Undefined THEN DEFAULT_LIMIT ELSE cfg.limit.n

\* `(res?.length ?? 0)`
LengthOf(res) == IF res.t = "array" THEN Len(res.items) ELSE 0

\* PaginatedFetcherBucket.isEnded
IsEnded(cfg, res) ==
  IF cfg.isEnded # "undefined"
    THEN LengthOf(res) = 0
    ELSE LengthOf(res) < GetLimit(cfg)

\* Mutant of Aggregated: a continuation replaces the value like a fresh fetch.
Aggregated_Replaces(cfg, nextPage, old, res) == res

\* Mutant of Aggregated: a value already fetched is kept.
Aggregated_FirstWriteWins(cfg, nextPage, old, res) ==
  IF old.t = "array" /\ old.items # <<>> THEN old ELSE res

\* The value a successful paginated fetch hands to this.set.
Aggregated(cfg, nextPage, old, res) ==
  IF nextPage
    THEN IF cfg.aggregate # "undefined"
           THEN Arr(res.items \o (IF old.t = "array" THEN old.items ELSE <<>>))
           ELSE IF old.t = "array" THEN Arr(old.items \o res.items) ELSE res
    ELSE res

\* Mutant of SkipLoadMore: the reachedEnd test is missing.
SkipLoadMore_Never(nextPage, ended) == FALSE

\* `if (nextPage) { if (this.reachedEnd) { return this.get() } ... }`
SkipLoadMore(nextPage, ended) == nextPage /\ ended

\* The loading flag a fetch sets before its request (`nextPage ? loadingMore : loading`).
FlagSet(nextPage) == IF nextPage THEN "loadingMore" ELSE "loading"

\* Mutant of FlagCleared: `finally` clears loading whatever the kind of fetch.
FlagCleared_AlwaysLoading(nextPage) == "loading"

\* The loading flag its `finally` clears.
FlagCleared(nextPage) == IF nextPage THEN "loadingMore" ELSE "loading"

\* Mutant of SetsFetched: the `!nextPage` guard is missing.
SetsFetched_Always(nextPage) == TRUE

\* `if (!nextPage) { this.fetched?.set(true) }`; FetcherBucket.fetch sets it always.
SetsFetched(nextPage) == ~nextPage

\* Mutant of Caught: the catch block rethrows without recording the error.
Caught_NotRecorded(err) == [error |-> Undefined, thrown |-> err]

\* The catch block's `this.error?.set(err)` and `throw err`.
Caught(err) == [error |-> err, thrown |-> err]

\* Mutant of HookArgs: the hook is not called.
HookArgs_NotCalled(cfg, res) == <<>>

\* `if (this.config.sideEffect) { this.config.sideEffect(res) }`: the
\* arguments of the calls a successful fetch makes to the hook.
HookArgs(cfg, res) == IF cfg.sideEffect THEN <<res>> ELSE <<>>

\* The options useQueryTrigger / useQuery are called with: none, or an object
\* with refreshOnMount.
QueryOptions ==
  {[has |-> FALSE, refreshOnMount |-> Undefined]}
    \cup {[has |-> TRUE, refreshOnMount |-> v] : v \in {Undefined, Bool(TRUE), Bool(FALSE)}}

\* `{ refreshOnMount: false, ...config }`: the properties of config come last.
MutatorQueryOptions(opts) ==
  IF opts.has THEN opts ELSE [has |-> TRUE, refreshOnMount |-> Bool(FALSE)]

\* The options each class's useQuery / useQueryTrigger hands to the effect.
TriggerOptions(cfg, hook, opts) ==
  IF cfg.variant = "MutatorBucket" /\ hook = "useQuery"
    THEN MutatorQueryOptions(opts)
    ELSE opts

\* useQueryTrigger's effect: `if (config.refreshOnMount !== false)`
RefreshOnMount(opts) == opts.refreshOnMount # Bool(FALSE)

\* config.path of the stores of the model.
ConfigPath == "/orders"

\* getPath(): config.path, and for a paginated store (none of the model has a
\* formatPath) `${path}?page=${page}&limit=${limit}`.
GetPath(cfg, pg) ==
  IF IsPaginated(cfg)
    THEN ConfigPath \o "?page=" \o ToString(pg) \o "&limit=" \o ToString(GetLimit(cfg))
    ELSE ConfigPath

\* The promise `promise.then(...)` of the n-th request's fetch.
Suspender(n) == [t |-> "promise", id |-> n]

\* suspense(promise) over the n-th request's fetch: status and response of the
\* closure, its suspender, and the path that fetch asked bucketFetch for.
Suspense(n, requestPath) ==
  [status |-> "pending", response |-> Undefined, suspender |-> Suspender(n),
   request |-> requestPath]

\* The callbacks of `promise.then(...)`.
OnFulfilled(w, res) == [w EXCEPT !.status = "success", !.response = res]
OnRejected(w, err) == [w EXCEPT !.status = "error", !.response = err]

\* Mutant of Read: the switch has no 'error' case.
Read_ErrorReturned(w) ==
  IF w.status = "pending"
    THEN [outcome |-> "throw", payload |-> w.suspender]
    ELSE [outcome |-> "return", payload |-> w.response]

\* read(): the switch on status.
Read(w) ==
  CASE w.status = "pending" -> [outcome |-> "throw", payload |-> w.suspender]
    [] w.status = "error" -> [outcome |-> "throw", payload |-> w.response]
    [] OTHER -> [outcome |-> "return", payload |-> w.response]

NoQuery == ""
NoQueries == [p \in {} |-> Suspense(0, NoQuery)]
NoRead == [called |-> FALSE, path |-> NoQuery, outcome |-> "none", payload |-> Undefined]
\* A step that calls no useSuspenseQuery creates and reads no wrapper.
NoSuspenseRead == lastRead' = NoRead /\ UNCHANGED queries

\* The wrappers after the fetch of task t settled as `settle` tells.
QueriesAfter(qs, t, settled) ==
  IF t.query = NoQuery THEN qs
  ELSE [qs EXCEPT ![t.query] =
          IF settled.ok THEN OnFulfilled(@, settled.v) ELSE OnRejected(@, settled.v)]

NoEvent ==
  [op |-> "none", by |-> "none", nextPage |-> FALSE, issued |-> FALSE,
   outcome |-> "none", payload |-> Undefined, cause |-> Undefined, writes |-> <<>>,
   seq |-> 0, hookArgs |-> <<>>]

Write(flag, v) == [flag |-> flag, v |-> v]
NoRun == [clean |-> FALSE, pages |-> <<>>]
SubBucket(v) == [exists |-> TRUE, value |-> v]
NoSubBucket == [exists |-> FALSE, value |-> Undefined]
\* `this.loadingMore?.set(v)`
SubBucketSet(b, v) == IF b.exists THEN [b EXCEPT !.value = v] ELSE b

\* The fields the constructors of FetcherBucket and its subclasses add.
FetchFields(cfg) ==
  /\ fconfig = cfg
  /\ page = 0
  /\ reachedEnd = FALSE
  /\ loading = Bool(FALSE)
  /\ loadingMore = IF IsPaginated(cfg) THEN SubBucket(Bool(FALSE)) ELSE NoSubBucket
  /\ fetched = Bool(FALSE)
  /\ error = Undefined
  /\ queries = NoQueries
  /\ lastRead = NoRead
  /\ tasks = EmptyBag
  /\ issuedCount = 0
  /\ event = NoEvent
  /\ run = NoRun

\* A store of one of the fetch classes when its constructor has returned.
FetchInit ==
  \E cfg \in FetchConfigs :
    /\ FetchFields(cfg)
    /\ BucketFields([defaultValue |-> cfg.defaultValue, persistKey |-> KeyUndefined], NoItem)

FetchIdle ==
  FetchFields(FetchConfig("FetcherBucket", FALSE, "undefined", "undefined", Undefined, Undefined))

\* this.fetch(params, nextPage) up to its `await bucketFetch(...)`; `by` names the caller.
StartFetch(op, by, nextPage) ==
  LET np == IsPaginated(fconfig) /\ nextPage
  IN IF IsPaginated(fconfig) /\ SkipLoadMore(nextPage, reachedEnd)
       THEN /\ event' = [op |-> op, by |-> by, nextPage |-> np, issued |-> FALSE,
                         outcome |-> "resolved", payload |-> value,
                         cause |-> Undefined, writes |-> <<>>, seq |-> 0,
                         hookArgs |-> <<>>]
            /\ UNCHANGED <<page, reachedEnd, loading, loadingMore, tasks,
                           issuedCount, run>>
       ELSE /\ issuedCount < MaxRequests
            /\ issuedCount' = issuedCount + 1
            /\ page' = IF IsPaginated(fconfig) THEN (IF np THEN page + 1 ELSE 0) ELSE page
            /\ reachedEnd' = IF IsPaginated(fconfig) /\ ~np THEN FALSE ELSE reachedEnd
            /\ loading' = IF FlagSet(np) = "loading" THEN Bool(TRUE) ELSE loading
            /\ loadingMore' = IF FlagSet(np) = "loadingMore"
                                THEN SubBucketSet(loadingMore, Bool(TRUE))
                                ELSE loadingMore
            /\ tasks' = tasks (+) SetToBag({[nextPage |-> np, page |-> page',
                                             seq |-> issuedCount',
                                             query |-> IF by = "useSuspenseQuery"
                                                         THEN GetPath(fconfig, page)
                                                         ELSE NoQuery]})
            /\ event' = [op |-> op, by |-> by, nextPage |-> np, issued |-> TRUE,
                         outcome |-> "pending", payload |-> Undefined,
                         cause |-> Undefined, writes |-> <<Write(FlagSet(np), Bool(TRUE))>>,
                         seq |-> issuedCount', hookArgs |-> <<>>]
            /\ run' = IF IsPaginated(fconfig) /\ tasks = EmptyBag
                        THEN (IF np THEN run ELSE [clean |-> TRUE, pages |-> <<>>])
                        ELSE NoRun

FetchFrame ==
  /\ NoSetCall
  /\ UNCHANGED <<fconfig, fetched, error, config, value, subscribers, hydrated,
                 storage, hydratePc, hydrateBlob, pendingOps, captured, everStored>>
  /\ UNCHANGED regVars

\* refetch() / mutate(params): an explicit fresh fetch.
Fetch ==
  /\ StartFetch("call", "explicit", FALSE)
  /\ NoSuspenseRead
  /\ FetchFrame

\* loadMore(): this.fetch(params, true) on a paginated store.
LoadMore ==
  /\ IsPaginated(fconfig)
  /\ StartFetch("call", "explicit", TRUE)
  /\ NoSuspenseRead
  /\ FetchFrame

\* A component calling useQuery(opts) or useQueryTrigger(opts) mounts and
\* useQueryTrigger's effect runs.
Mount(hook, opts) ==
  /\ IF RefreshOnMount(TriggerOptions(fconfig, hook, opts))
       THEN StartFetch("mount", hook, FALSE)
       ELSE /\ event' = [NoEvent EXCEPT !.op = "mount", !.by = hook]
            /\ UNCHANGED <<page, reachedEnd, loading, loadingMore, tasks,
                           issuedCount, run>>
  /\ NoSuspenseRead
  /\ FetchFrame

\* useSuspenseQuery() called by a rendering component: the wrapper of the
\* current path is created over a fresh fetch if there is none, and read.
UseSuspenseQuery ==
  LET path == GetPath(fconfig, page)
  IN /\ IF path \notin DOMAIN queries
          THEN /\ StartFetch("call", "useSuspenseQuery", FALSE)
               /\ queries' = [p \in DOMAIN queries \cup {path} |->
                                IF p = path
                                  THEN Suspense(issuedCount', GetPath(fconfig, page'))
                                  ELSE queries[p]]
          ELSE /\ event' = [NoEvent EXCEPT !.op = "read", !.by = "useSuspenseQuery"]
               /\ UNCHANGED <<page, reachedEnd, loading, loadingMore, tasks,
                              issuedCount, run, queries>>
     /\ lastRead' = [called |-> TRUE, path |-> path,
                     outcome |-> Read(queries'[path]).outcome,
                     payload |-> Read(queries'[path]).payload]
     /\ FetchFrame

\* The request of a suspended fetch succeeds with body res and, after
\* `await wait(800)`, which touches no state, the fetch runs to its end.
FetchSucceed(t, res) ==
  /\ BagIn(t, tasks)
  /\ tasks' = tasks (-) SetToBag({t})
  /\ queries' = QueriesAfter(queries, t, [ok |-> TRUE, v |-> res])
  /\ lastRead' = NoRead
  /\ fetched' = IF SetsFetched(t.nextPage) THEN Bool(TRUE) ELSE fetched
  /\ IF fconfig.sideEffect
       THEN NoSetCall /\ UNCHANGED <<value, pendingOps>>
       ELSE BucketSet([fn |-> FALSE, v |-> Aggregated(fconfig, t.nextPage, value, res)])
  /\ reachedEnd' = IF IsPaginated(fconfig) THEN IsEnded(fconfig, res) ELSE reachedEnd
  /\ loading' = IF FlagCleared(t.nextPage) = "loading" THEN Bool(FALSE) ELSE loading
  /\ loadingMore' = IF FlagCleared(t.nextPage) = "loadingMore"
                      THEN SubBucketSet(loadingMore, Bool(FALSE))
                      ELSE loadingMore
  /\ event' = [op |-> "settle", by |-> "none", nextPage |-> t.nextPage, issued |-> FALSE,
               outcome |-> "resolved", payload |-> res, cause |-> res,
               writes |-> (IF SetsFetched(t.nextPage)
                             THEN <<Write("fetched", Bool(TRUE))>> ELSE <<>>)
                          \o <<Write(FlagCleared(t.nextPage), Bool(FALSE))>>,
               seq |-> t.seq, hookArgs |-> HookArgs(fconfig, res)]
  /\ run' = IF run.clean THEN [run EXCEPT !.pages = Append(@, res.items)] ELSE run
  /\ UNCHANGED <<fconfig, page, error, issuedCount, config, subscribers, hydrated,
                 storage, hydratePc, hydrateBlob, captured, everStored>>
  /\ UNCHANGED regVars

\* The request of a suspended fetch fails with err: the catch and finally blocks run.
FetchFail(t, err) ==
  /\ BagIn(t, tasks)
  /\ tasks' = tasks (-) SetToBag({t})
  /\ queries' = QueriesAfter(queries, t, [ok |-> FALSE, v |-> Caught(err).thrown])
  /\ lastRead' = NoRead
  /\ error' = Caught(err).error
  /\ loading' = IF FlagCleared(t.nextPage) = "loading" THEN Bool(FALSE) ELSE loading
  /\ loadingMore' = IF FlagCleared(t.nextPage) = "loadingMore"
                      THEN SubBucketSet(loadingMore, Bool(FALSE))
                      ELSE loadingMore
  /\ event' = [op |-> "settle", by |-> "none", nextPage |-> t.nextPage, issued |-> FALSE,
               outcome |-> "rejected", payload |-> Caught(err).thrown, cause |-> err,
               writes |-> <<Write("error", Caught(err).error),
                            Write(FlagCleared(t.nextPage), Bool(FALSE))>>,
               seq |-> t.seq, hookArgs |-> <<>>]
  /\ run' = NoRun
  /\ NoSetCall
  /\ UNCHANGED <<fconfig, page, reachedEnd, fetched, issuedCount, config, value,
                 subscribers, hydrated, storage, hydratePc, hydrateBlob, pendingOps,
                 captured, everStored>>
  /\ UNCHANGED regVars

FetchNext ==
  \/ Fetch
  \/ LoadMore
  \/ \E hook \in {"useQuery", "useQueryTrigger"}, opts \in QueryOptions : Mount(hook, opts)
  \/ \E t \in BagToSet(tasks), res \in Responses : FetchSucceed(t, res)
  \/ \E t \in BagToSet(tasks), err \in Errors : FetchFail(t, err)

\* The store read by suspending components while the application calls
\* refetch and loadMore.
SuspenseNext ==
  \/ UseSuspenseQuery
  \/ Fetch
  \/ LoadMore
  \/ \E t \in BagToSet(tasks), res \in Responses : FetchSucceed(t, res)
  \/ \E t \in BagToSet(tasks), err \in Errors : FetchFail(t, err)

\* A lone Bucket without persistence, for the specifications about other parts.
BucketIdle ==
  BucketFields([defaultValue |-> Undefined, persistKey |-> KeyUndefined], NoItem)

InitBucket == BucketInit /\ RegIdle /\ FetchIdle
SpecBucket == InitBucket /\ [][BucketNext]_vars

InitRegistry == BucketIdle /\ RegIdle /\ FetchIdle
SpecRegistry == InitRegistry /\ [][RegNext]_vars

InitCreators == BucketIdle /\ RegIdle /\ FetchIdle
SpecCreators == InitCreators /\ [][CreatorsNext]_vars

InitFetch == FetchInit /\ RegIdle
SpecFetch == InitFetch /\ [][FetchNext]_vars

\* The stores read by suspending components: those of each class with the
\* default aggregation and no sideEffect hook.
SuspenseConfigs ==
  {cfg \in FetchConfigs : ~cfg.sideEffect /\ cfg.aggregate = "undefined"}

InitSuspense ==
  /\ \E cfg \in SuspenseConfigs :
       /\ FetchFields(cfg)
       /\ BucketFields([defaultValue |-> cfg.defaultValue, persistKey |-> KeyUndefined],
                       NoItem)
  /\ RegIdle
SpecSuspense == InitSuspense /\ [][SuspenseNext]_vars

(***************************************************************************)
(* Claims about the Bucket                                                 *)
(***************************************************************************)

\* C1: the value changes only by a set call, which leaves the value computed
\* from its argument (a literal, or an updater applied to the old value), so
\* get() after the last call returns that call's value; and a set call
\* invokes every observer subscribed when it runs exactly once, with the
\* value it wrote, and no other observer.
C1_SetLastWriteWinsNotifiesOnce ==
  [][IF lastSet'.called
       THEN /\ value' = (IF lastSet'.arg.fn THEN Bool(~Truthy(value)) ELSE lastSet'.arg.v)
            /\ \A s \in Subs :
                 notified'[s] = IF s \in subscribers THEN <<value'>> ELSE <<>>
       ELSE value' = value /\ notified' = NoSubscriberCalls]_vars

\* A set call with an updater has just run with every observer subscribed.
C1_Witness ==
  /\ lastSet.called
  /\ lastSet.arg.fn
  /\ subscribers = Subs
  /\ \A s \in Subs : notified[s] = <<value>>

\* C2: every store ever constructed through the registry is still the one
\* registered under its key (so at most one instance per key exists and no
\* entry is removed or replaced); two call sites that looked up the same key
\* hold the identical instance; and a set through one handle is what get()
\* returns through every handle of that key.
C2_RegistryUniqueness ==
  /\ \A i \in 1..Len(heap) : instances[heap[i].key] = i
  /\ \A s1, s2 \in Sites :
       (handles[s1].id # 0 /\ handles[s2].id # 0 /\ handles[s1].key = handles[s2].key)
         => handles[s1].id = handles[s2].id
  /\ \A s \in Sites :
       (lastWrite.site # 0 /\ handles[s].id # 0
          /\ handles[s].key = handles[lastWrite.site].key)
         => HandleGet(s) = lastWrite.v

\* Two call sites looked up one key while another key holds its own store, and
\* a set through the first site is read through the second.
C2_Witness ==
  /\ handles[1].id # 0
  /\ handles[1] = handles[2]
  /\ Len(heap) = 2
  /\ lastWrite = [site |-> 1, v |-> Num(1)]
  /\ HandleGet(2) = Num(1)

\* C9: a store constructed without a persistence key has no hydration flag
\* and reports hydrated = true in every state.
C9_NoPersistKeyAlwaysHydrated ==
  ~HasPersistKey(config) =>
    /\ ~hydrated.exists
    /\ UseIsHydrated(hydrated) = Bool(TRUE)

\* A store without a persistence key after a set call observed by a subscriber.
C9_Witness ==
  /\ config.persistKey = KeyUndefined
  /\ lastSet.called
  /\ subscribers # {}
  /\ UseIsHydrated(hydrated) = Bool(TRUE)

\* C10: a store with a persistence key under which nothing was ever
\* persisted has its hydration flag true once hydrate() has settled.
C10_HydratedOnceSettledWithNothingStored ==
  (HasPersistKey(config) /\ ~everStored /\ hydratePc = "done")
    => hydrated.value = Bool(TRUE)

\* C11: when hydrate() completes on a store constructed over the text that
\* an earlier store's set(v) saved under the same persistence key, get()
\* returns v and the hydration flag is true, for every v including 0, false,
\* the empty string and null.
C11_RoundTripRestoresEveryValue ==
  [][\A v \in SavedValues :
       (hydratePc = "loaded" /\ hydrateBlob = Stringify(v) /\ hydratePc' # "loaded")
         => (value' = v /\ hydrated'.value = Bool(TRUE))]_vars

\* C14: a set call on a store with a persistence key assigns the value and
\* calls every observer in the step that issues the save, which leaves the
\* save outstanding and the storage untouched; a save that leaves the
\* outstanding calls without a report to captureException has taken effect
\* in the storage; and the step in which a save fails reports it once and
\* changes neither the value nor the storage, and calls no observer.
C14_PersistenceFireAndForget ==
  [][/\ (lastSet'.called /\ HasPersistKey(config)) =>
          /\ value' = (IF lastSet'.arg.fn THEN Bool(~Truthy(value)) ELSE lastSet'.arg.v)
          /\ \A s \in Subs :
               notified'[s] = IF s \in subscribers THEN <<value'>> ELSE <<>>
          /\ pendingOps' =
               pendingOps (+) SetToBag({[op |-> "setItem", text |-> Stringify(value')]})
          /\ storage' = storage
          /\ captured' = captured
     /\ \A op \in BagToSet(pendingOps) :
          (op.op = "setItem" /\ pendingOps' = pendingOps (-) SetToBag({op})) =>
            IF captured' = captured
              THEN storage' = op.text
              ELSE /\ captured' = captured + 1
                   /\ value' = value
                   /\ storage' = storage
                   /\ hydrated' = hydrated
                   /\ ~lastSet'.called
                   /\ notified' = NoSubscriberCalls]_vars

\* The save of set(1) has failed on a store whose hydration found nothing:
\* the failure is reported, the value is still 1 and the storage is empty.
C14_Witness ==
  /\ HasPersistKey(config)
  /\ hydratePc = "done"
  /\ captured = 1
  /\ value = Num(1)
  /\ storage = NoItem
  /\ ~everStored
  /\ pendingOps = EmptyBag

\* C15: the step in which hydration ends because getItem failed, or because
\* the item it read is not JSON, reports the failure once to
\* captureException, calls no set and leaves the value, the hydration flag,
\* the storage and the outstanding saves as they were, with the flag false;
\* and no later step of hydration follows, so the flag stays false.
C15_HydrationFailureOnlyReported ==
  [][/\ (\/ hydratePc = "getItem" /\ hydratePc' \notin {"getItem", "loaded"}
         \/ /\ hydratePc = "loaded"
            /\ hydratePc' # "loaded"
            /\ hydrateBlob # NoItem
            /\ ~Parses(hydrateBlob.toks)) =>
          /\ captured' = captured + 1
          /\ ~lastSet'.called
          /\ value' = value
          /\ hydrated' = hydrated
          /\ hydrated'.value = Bool(FALSE)
          /\ UNCHANGED <<storage, pendingOps>>
          /\ hydratePc' = "failed"
     /\ hydratePc = "failed" =>
          /\ hydratePc' = "failed"
          /\ hydrated' = hydrated
          /\ hydrated'.value = Bool(FALSE)]_vars

\* Hydration has failed on an item that is not JSON: one report, the value is
\* the configured default 0 and the flag is false.
C15_Witness ==
  /\ hydratePc = "failed"
  /\ hydrateBlob = Text(<<"{">>)
  /\ captured = 1
  /\ config.defaultValue = Num(0)
  /\ value = Num(0)
  /\ hydrated = [exists |-> TRUE, value |-> Bool(FALSE)]
  /\ ~lastSet.called

\* C18: get() returns a defined value in every state from the return of the
\* constructor on, whatever the configuration.
C18_ValueDefinedAfterConstruction == value # Undefined

\* C18, amended: when the constructor returns, get() returns the configured
\* default, which is undefined for a store constructed without one; and a
\* value that is defined stays defined except by a set call that is passed
\* undefined.
C18_ValueIsDefaultThenStaysDefined ==
  /\ value = config.defaultValue
  /\ [][(value # Undefined /\ value' = Undefined) =>
         (lastSet'.called /\ ~lastSet'.arg.fn /\ lastSet'.arg.v = Undefined)]_vars

\* A store constructed without a default and without a persistence key (as
\* the error bucket of a fetch store is) is observed and still undefined.
C18_Witness ==
  /\ config = [defaultValue |-> Undefined, persistKey |-> KeyUndefined]
  /\ value = Undefined
  /\ subscribers = Subs

\* C20: no two stores are ever constructed for one key; a singleton call
\* for a key that has a store runs no creator, changes neither the registry
\* nor any store, and returns that first store, with the variant, path and
\* persistence key it was constructed with, whatever helper and configuration
\* the call came with; a call for a key without a store constructs exactly
\* one, of the helper's class and with the call's configuration.
C20_FirstCreatorWins ==
  [][/\ \A i, j \in 1..Len(heap') : heap'[i].key = heap'[j].key => i = j
     /\ lastLookup'.site # 0 =>
          LET got == handles'[lastLookup'.site]
          IN IF instances[got.key] # 0
               THEN /\ ~lastLookup'.created
                    /\ UNCHANGED <<heap, instances>>
                    /\ got.id = instances[got.key]
               ELSE /\ lastLookup'.created
                    /\ Len(heap') = Len(heap) + 1
                    /\ \A i \in 1..Len(heap) : heap'[i] = heap[i]
                    /\ got.id = Len(heap')
                    /\ instances' = [instances EXCEPT ![got.key] = got.id]
                    /\ heap'[got.id].variant = VariantOf(lastLookup'.helper)
                    /\ heap'[got.id].path = lastLookup'.path
                    /\ heap'[got.id].persistKey = lastLookup'.persistKey]_vars

\* keyedMutatorBucket called with path /b, a persistence key and the unique
\* key /a has just returned the FetcherBucket that keyedFetcherBucket created
\* for the path /a without persistence key; no second store exists.
C20_Witness ==
  /\ lastLookup.site = 2
  /\ lastLookup.helper = "keyedMutatorBucket"
  /\ lastLookup.path = "/b"
  /\ lastLookup.persistKey = "store"
  /\ ~lastLookup.created
  /\ handles[1] = handles[2]
  /\ Len(heap) = 1
  /\ heap[handles[2].id].variant = "FetcherBucket"
  /\ heap[handles[2].id].path = "/a"
  /\ heap[handles[2].id].persistKey = KeyUndefined

\* C23: on a persisted store whose key held a stored value, when hydrate()
\* completes after a set call has replaced the constructor's value, the step
\* leaves the value that set call wrote, and every save it issues is a save
\* of that value.
C23_HydrationKeepsNewerWrite ==
  [][(/\ hydratePc = "loaded"
      /\ hydratePc' = "done"
      /\ hydrateBlob # NoItem
      /\ value # ConstructValue(config)) =>
       /\ value' = value
       /\ \A op \in BagToSet(pendingOps') :
            ~BagIn(op, pendingOps) => op = PersistSaveOp(value)]_vars

(***************************************************************************)
(* Claims about the fetch classes                                          *)
(***************************************************************************)
IsCall(e) == e.op \in {"call", "mount"}
LoadingFlag(nextPage) == IF nextPage THEN "loadingMore" ELSE "loading"
OtherLoadingFlag(nextPage) == IF nextPage THEN "loading" ELSE "loadingMore"
FlagValue(flag, l, lm) == IF flag = "loading" THEN l ELSE lm.value
WritesTo(e, flag) == \E i \in 1..Len(e.writes) : e.writes[i].flag = flag

RECURSIVE Flatten(_)
Flatten(pages) ==
  IF pages = <<>> THEN <<>> ELSE Head(pages) \o Flatten(Tail(pages))

\* C3: a load-more call made while reachedEnd is true issues no request,
\* returns the current value and leaves value, page, reachedEnd and every flag
\* as they were; and page is incremented only, by one, by a load-more call
\* that found reachedEnd false.
C3_LoadMoreAtEndIsNoOp ==
  [][/\ (event'.op = "call" /\ event'.nextPage /\ reachedEnd) =>
          /\ ~event'.issued
          /\ event'.outcome = "resolved"
          /\ event'.payload = value
          /\ event'.writes = <<>>
          /\ ~lastSet'.called
          /\ UNCHANGED <<value, page, reachedEnd, loading, loadingMore, fetched,
                         error, tasks, issuedCount>>
     /\ page' > page =>
          /\ event'.op = "call"
          /\ event'.nextPage
          /\ event'.issued
          /\ ~reachedEnd
          /\ page' = page + 1]_vars

\* A load-more call has just returned without a request, on a store whose
\* earlier load-more reached the end.
C3_Witness ==
  /\ event.op = "call"
  /\ event.nextPage
  /\ ~event.issued
  /\ reachedEnd
  /\ page >= 1
  /\ event.payload = value
  /\ value.t = "array"
  /\ Len(value.items) > 2

\* C4: on a paginated store with the default aggregate and end predicate and
\* no sideEffect, after a successful fresh fetch followed by successful
\* load-more calls, none overlapping another fetch, the value is the
\* concatenation in order of the page results and reachedEnd tells whether
\* the last page has fewer items than the page size. (The stores of this
\* specification have no persistKey and no caller of set but the fetches.)
C4_PagesConcatenated ==
  (/\ IsPaginated(fconfig)
   /\ ~fconfig.sideEffect
   /\ fconfig.aggregate = "undefined"
   /\ fconfig.isEnded = "undefined"
   /\ run.clean
   /\ run.pages # <<>>)
    => /\ value = Arr(Flatten(run.pages))
       /\ reachedEnd = (Len(run.pages[Len(run.pages)]) < GetLimit(fconfig))

\* With the default page size of 10: pages of 10, 10 and 4 items gave 24 items
\* and reachedEnd, the first two pages having left reachedEnd false.
C4_Witness ==
  /\ IsPaginated(fconfig)
  /\ fconfig.limit = Undefined
  /\ run.clean
  /\ Len(run.pages) = 3
  /\ Len(run.pages[1]) = 10
  /\ Len(run.pages[2]) = 10
  /\ Len(run.pages[3]) = 4
  /\ tasks = EmptyBag
  /\ page = 2
  /\ Len(value.items) = 24
  /\ reachedEnd

\* C5: when the request of a fetch, mutate or load-more fails, the error
\* bucket holds that failure, the same failure is thrown to the caller, and
\* the step writes neither the store's value nor the fetched flag.
C5_FailureRecordedAndRethrown ==
  [][(event'.op = "settle" /\ event'.outcome = "rejected") =>
       /\ error' = event'.cause
       /\ event'.payload = event'.cause
       /\ value' = value
       /\ ~lastSet'.called
       /\ fetched' = fetched
       /\ ~WritesTo(event', "fetched")]_vars

\* A load-more has just failed on a store whose fresh fetch had succeeded.
C5_Witness ==
  /\ event.op = "settle"
  /\ event.outcome = "rejected"
  /\ event.nextPage
  /\ error = Err(2)
  /\ event.payload = Err(2)
  /\ fetched = Bool(TRUE)
  /\ value.t = "array"
  /\ value.items # <<>>

\* C6: a fetch that issues a request writes true to its loading flag (loading
\* for a fresh fetch, loadingMore for a load-more) and nothing else before the
\* request; when it settles, by success or failure, its last write is false
\* to that same flag; and it never writes the other loading flag.
C6_LoadingFlagSetAndCleared ==
  [][/\ (IsCall(event') /\ event'.issued) =>
          /\ event'.writes = <<Write(LoadingFlag(event'.nextPage), Bool(TRUE))>>
          /\ FlagValue(LoadingFlag(event'.nextPage), loading', loadingMore') = Bool(TRUE)
          /\ FlagValue(OtherLoadingFlag(event'.nextPage), loading', loadingMore')
               = FlagValue(OtherLoadingFlag(event'.nextPage), loading, loadingMore)
     /\ (IsCall(event') /\ ~event'.issued) =>
          /\ event'.writes = <<>>
          /\ UNCHANGED <<loading, loadingMore>>
     /\ event'.op = "settle" =>
          /\ event'.writes[Len(event'.writes)]
               = Write(LoadingFlag(event'.nextPage), Bool(FALSE))
          /\ FlagValue(LoadingFlag(event'.nextPage), loading', loadingMore') = Bool(FALSE)
          /\ ~WritesTo(event', OtherLoadingFlag(event'.nextPage))
          /\ FlagValue(OtherLoadingFlag(event'.nextPage), loading', loadingMore')
               = FlagValue(OtherLoadingFlag(event'.nextPage), loading, loadingMore)]_vars

\* A load-more has just failed and cleared loadingMore while a fresh fetch is
\* still in flight with loading true.
C6_Witness ==
  /\ event.op = "settle"
  /\ event.outcome = "rejected"
  /\ event.nextPage
  /\ loadingMore.value = Bool(FALSE)
  /\ loading = Bool(TRUE)
  /\ \E t \in BagToSet(tasks) : ~t.nextPage

\* C7: a successful fresh fetch sets the fetched flag to true and, with no
\* sideEffect configured, replaces the value by the response; a successful
\* load-more does not write the fetched flag; and the fetched flag changes
\* only by a successful fresh fetch, to true.
C7_FetchedOnlyByFreshSuccess ==
  [][/\ (event'.op = "settle" /\ event'.outcome = "resolved" /\ ~event'.nextPage) =>
          /\ fetched' = Bool(TRUE)
          /\ ~fconfig.sideEffect => (lastSet'.called /\ value' = event'.cause)
     /\ (event'.op = "settle" /\ event'.outcome = "resolved" /\ event'.nextPage) =>
          /\ ~WritesTo(event', "fetched")
          /\ fetched' = fetched
     /\ fetched' # fetched =>
          /\ event'.op = "settle"
          /\ event'.outcome = "resolved"
          /\ ~event'.nextPage
          /\ fetched' = Bool(TRUE)]_vars

\* A load-more has just succeeded on a store no fresh fetch of which has
\* succeeded: the value holds its page and fetched is still false.
C7_Witness ==
  /\ event.op = "settle"
  /\ event.outcome = "resolved"
  /\ event.nextPage
  /\ fetched = Bool(FALSE)
  /\ value = event.cause

\* C8: the mount of a component that calls a mutation store's useQuery issues
\* no request, whatever options it passes.
C8_MutatorNeverFetchesOnMount ==
  (fconfig.variant = "MutatorBucket" /\ event.op = "mount" /\ event.by = "useQuery")
    => ~event.issued

\* C16: on a paginated store reachedEnd goes from true to false only in a
\* step that starts a fresh fetch.
C16_ReachedEndSticky ==
  [][(IsPaginated(fconfig) /\ reachedEnd /\ ~reachedEnd') =>
       (IsCall(event') /\ event'.issued /\ ~event'.nextPage)]_vars

\* C17: a fetch call that issues a request adds it to the fetches in flight,
\* whatever is in flight already, and a fetch that settles removes itself
\* only; a fresh fetch that succeeds leaves the store's value equal to its own
\* response (no sideEffect configured), fetched true and loading false,
\* whichever fetches were started before or after it and whether or not they
\* have settled: after overlapping fresh fetches the value and the flags are
\* those of the one that settled last.
C17_LastSettlingFetchWins ==
  [][/\ (IsCall(event') /\ event'.issued) =>
          /\ BagCardinality(tasks') = BagCardinality(tasks) + 1
          /\ \A t \in BagToSet(tasks) : BagIn(t, tasks')
          /\ \E t \in BagToSet(tasks') : t.seq = event'.seq /\ ~BagIn(t, tasks)
     /\ event'.op = "settle" =>
          /\ BagCardinality(tasks') = BagCardinality(tasks) - 1
          /\ \A t \in BagToSet(tasks') : BagIn(t, tasks)
          /\ \E t \in BagToSet(tasks) : t.seq = event'.seq /\ ~BagIn(t, tasks')
     /\ (event'.op = "settle" /\ event'.outcome = "resolved" /\ ~event'.nextPage) =>
          /\ ~fconfig.sideEffect => value' = event'.payload
          /\ fetched' = Bool(TRUE)
          /\ loading' = Bool(FALSE)]_vars

\* Two fetches of a FetcherBucket overlapped and both succeeded, the one
\* started first settling last: the value is its response.
C17_Witness ==
  /\ fconfig.variant = "FetcherBucket"
  /\ ~fconfig.sideEffect
  /\ issuedCount = 2
  /\ tasks = EmptyBag
  /\ error = Undefined
  /\ event.op = "settle"
  /\ event.outcome = "resolved"
  /\ event.seq = 1
  /\ event.payload = Arr(<<7>>)
  /\ value = Arr(<<7>>)
  /\ fetched = Bool(TRUE)
  /\ loading = Bool(FALSE)

\* C19: with a sideEffect hook configured, a fetch that succeeds calls the
\* hook once with the response and calls no set, so the value is what it was
\* (the hooks of the model write nothing); it sets fetched to true if fresh
\* and leaves it otherwise, clears its own loading flag, and on a paginated
\* store sets reachedEnd from the response and the page size.
C19_SideEffectReplacesValueWrite ==
  [][(event'.op = "settle" /\ event'.outcome = "resolved" /\ fconfig.sideEffect) =>
       /\ event'.hookArgs = <<event'.payload>>
       /\ ~lastSet'.called
       /\ notified' = NoSubscriberCalls
       /\ value' = value
       /\ fetched' = (IF event'.nextPage THEN fetched ELSE Bool(TRUE))
       /\ FlagValue(LoadingFlag(event'.nextPage), loading', loadingMore') = Bool(FALSE)
       /\ IsPaginated(fconfig) =>
            reachedEnd' = (Len(event'.payload.items) < fconfig.limit.n)]_vars

\* On a paginated store with a hook, a fresh fetch and a load-more have
\* succeeded, the last with a short page: the value is still the default,
\* fetched and reachedEnd are true.
C19_Witness ==
  /\ IsPaginated(fconfig)
  /\ fconfig.sideEffect
  /\ event.op = "settle"
  /\ event.outcome = "resolved"
  /\ event.nextPage
  /\ event.hookArgs = <<Arr(<<7>>)>>
  /\ value = fconfig.defaultValue
  /\ fetched = Bool(TRUE)
  /\ loadingMore.value = Bool(FALSE)
  /\ reachedEnd
  /\ page = 1

\* C21: on a paginated store whose fetches since the last fresh fetch
\* started have not overlapped, when a load-more settles page is the number
\* of load-more calls that have succeeded since that fresh fetch: one more
\* than before if it succeeded, the same as before if its request failed.
C21_PageCountsSuccessfulLoadMores ==
  [][(/\ IsPaginated(fconfig)
      /\ run.clean
      /\ run.pages # <<>>
      /\ event'.op = "settle"
      /\ event'.nextPage) =>
       page' = (Len(run.pages) - 1) + (IF event'.outcome = "resolved" THEN 1 ELSE 0)]_vars

\* C22: the error bucket is written only by the step in which a request
\* fails, which stores that failure; every other step (an issue, a mount, a
\* successful settle of a fetch, mutate or load-more) leaves it as it was, so
\* it keeps the error of the most recent failure.
C22_ErrorWrittenOnlyOnFailure ==
  [][IF event'.op = "settle" /\ event'.outcome = "rejected"
       THEN error' = event'.cause /\ WritesTo(event', "error")
       ELSE error' = error /\ ~WritesTo(event', "error")]_vars

\* A fetch failed, then a fresh fetch and a load-more succeeded one after the
\* other, and the error bucket still holds the failure.
C22_Witness ==
  /\ IsPaginated(fconfig)
  /\ error = Err(1)
  /\ issuedCount = 3
  /\ tasks = EmptyBag
  /\ run.clean
  /\ Len(run.pages) = 2
  /\ event.op = "settle"
  /\ event.outcome = "resolved"
  /\ event.nextPage

\* Some fetch of the kind that uses flag has issued its request and has not
\* settled.
InFlight(flag) == \E t \in BagToSet(tasks) : LoadingFlag(t.nextPage) = flag

\* C24, as claimed: in every reachable state loading is true whenever a fresh
\* fetch is in flight and loadingMore is true whenever a load-more is in
\* flight, also when several overlap and one has settled before the others.
C24_LoadingWhileAnyInFlight ==
  \A flag \in {"loading", "loadingMore"} :
    InFlight(flag) => FlagValue(flag, loading, loadingMore) = Bool(TRUE)

\* C24, amended: each loading flag holds the last write made to it. It is
\* true only while a fetch of its kind is in flight, it stays true until a
\* fetch of its kind settles, and the settle of any one of them makes it
\* false, whether or not others of its kind are still in flight.
C24_LoadingFollowsLastWrite ==
  [][\A flag \in {"loading", "loadingMore"} :
       LET before == FlagValue(flag, loading, loadingMore)
           after == FlagValue(flag, loading', loadingMore')
           settles == event'.op = "settle" /\ LoadingFlag(event'.nextPage) = flag
       IN /\ after = Bool(TRUE) => InFlight(flag)'
          /\ (before = Bool(TRUE) /\ ~settles) => after = Bool(TRUE)
          /\ settles => after = Bool(FALSE)]_vars

\* Of two overlapping fresh fetches one has settled and cleared loading while
\* the other is still in flight.
C24_Witness ==
  /\ event.op = "settle"
  /\ ~event.nextPage
  /\ loading = Bool(FALSE)
  /\ InFlight("loading")
  /\ issuedCount = 2

(***************************************************************************)
(* Claims about the suspending read                                        *)
(***************************************************************************)

\* C12: every wrapper of this.queries is registered under the path its fetch
\* requested, and no two wrappers are over fetches of the same request path.
C12_SingleFlightPerRequestPath ==
  /\ \A p \in DOMAIN queries : queries[p].request = p
  /\ \A p, q \in DOMAIN queries : queries[p].request = queries[q].request => p = q

\* C13: a wrapper stays registered with the suspender it was created with;
\* it is created pending, leaves pending only in the step that settles its
\* own fetch, to success with the result or to error with the failure, and
\* never changes afterwards; a read() of a pending wrapper throws its
\* suspender, a read() after success returns the result and a read() after
\* failure throws the failure.
C13_BlockingReader ==
  [][/\ \A p \in DOMAIN queries :
          /\ p \in DOMAIN queries'
          /\ queries'[p].suspender = queries[p].suspender
          /\ queries[p].status # "pending" => queries'[p] = queries[p]
          /\ queries'[p].status # queries[p].status =>
               /\ \E t \in BagToSet(tasks) : t.query = p /\ ~BagIn(t, tasks')
               /\ event'.op = "settle"
               /\ queries'[p].status =
                    (IF event'.outcome = "resolved" THEN "success" ELSE "error")
               /\ queries'[p].response = event'.payload
     /\ \A p \in DOMAIN queries' :
          /\ queries'[p].status \in {"pending", "success", "error"}
          /\ p \notin DOMAIN queries => queries'[p].status = "pending"
     /\ lastRead'.called =>
          LET w == queries'[lastRead'.path]
          IN /\ w.status = "pending" =>
                  (lastRead'.outcome = "throw" /\ lastRead'.payload = w.suspender)
             /\ w.status = "success" =>
                  (lastRead'.outcome = "return" /\ lastRead'.payload = w.response)
             /\ w.status = "error" =>
                  (lastRead'.outcome = "throw" /\ lastRead'.payload = w.response)]_vars

\* A read() has just re-raised the failure of a wrapper's fetch, while a
\* later fresh fetch of the store is in flight.
C13_Witness ==
  /\ lastRead.called
  /\ lastRead.outcome = "throw"
  /\ lastRead.payload = Err(1)
  /\ queries[lastRead.path].status = "error"
  /\ tasks # EmptyBag

====
